---- MODULE Spec2Model ----
(***************************************************************************)
(* Model of scripts/extractInfoFromHMMfile.py: the header parser            *)
(* read_and_process_file, infer_source_from_accession, the two writers      *)
(* write_table / write_json and the os.walk traversal loop that drives      *)
(* them.  A Python str is a sequence of one-character strings, a dict is a  *)
(* sequence of <<key, value>> pairs in insertion order.                     *)
(***************************************************************************)
EXTENDS Integers, Sequences, FiniteSets, TLC

\* ------------------------------------------------------------------ bounds
\* number of directories of the tree (directory 0 is the start directory '.')
NumDirs == 3
\* number of files in the whole tree
MaxFiles == 2
\* number of lines after the first line of a profile file
MaxLines == 3
\* number of times the script is run on the tree
MaxRuns == 2

\* ------------------------------------------------------- Python str methods
\* characters for which str.isspace() holds
Whitespace == {" ", "\t", "\n"}

RECURSIVE lstrip(_)
lstrip(s) ==
    IF s # <<>> /\ Head(s) \in Whitespace THEN lstrip(Tail(s)) ELSE s

RECURSIVE rstrip(_)
rstrip(s) ==
    IF s # <<>> /\ s[Len(s)] \in Whitespace
    THEN rstrip(SubSeq(s, 1, Len(s) - 1))
    ELSE s

startswith(s, prefix) ==
    /\ Len(s) >= Len(prefix)
    /\ SubSeq(s, 1, Len(prefix)) = prefix

endswith(s, suffix) ==
    /\ Len(s) >= Len(suffix)
    /\ SubSeq(s, Len(s) - Len(suffix) + 1, Len(s)) = suffix

\* index of the first whitespace character of s, Len(s) + 1 when there is none
RECURSIVE FirstSpace(_, _)
FirstSpace(s, i) ==
    IF i > Len(s) \/ s[i] \in Whitespace THEN i ELSE FirstSpace(s, i + 1)

\* s.split(maxsplit=1): the list of at most two fields
split_maxsplit1(s) ==
    LET t == lstrip(s)
        n == FirstSpace(t, 1)
        rest == lstrip(SubSeq(t, n, Len(t)))
    IN  IF t = <<>> THEN <<>>
        ELSE IF rest = <<>> THEN << SubSeq(t, 1, n - 1) >>
        ELSE << SubSeq(t, 1, n - 1), rest >>

\* sep.join(items)
RECURSIVE str_join(_, _)
str_join(sep, items) ==
    IF items = <<>> THEN <<>>
    ELSE IF Len(items) = 1 THEN items[1]
    ELSE items[1] \o sep \o str_join(sep, Tail(items))

\* os.path.join(a, b) for a relative b
join(a, b) ==
    IF a = <<>> \/ a[Len(a)] = "/" THEN a \o b ELSE a \o <<"/">> \o b

\* fnmatch.fnmatch(name, "*.hmm") on a case-sensitive file system
fnmatch_hmm(name) == endswith(name, <<".", "h", "m", "m">>)

\* ------------------------------------------------------------ Python dict
DictKeys(d) == [i \in 1..Len(d) |-> d[i][1]]
DictValues(d) == [i \in 1..Len(d) |-> d[i][2]]
KeySet(d) == {d[i][1] : i \in 1..Len(d)}

\* d[k] = v : replaces the value in place, or appends a new entry
DictSet(d, k, v) ==
    IF k \in KeySet(d)
    THEN [i \in 1..Len(d) |-> IF d[i][1] = k THEN <<k, v>> ELSE d[i]]
    ELSE Append(d, <<k, v>>)

\* d.get(k, default)
DictGet(d, k, default) ==
    IF k \in KeySet(d)
    THEN d[CHOOSE i \in 1..Len(d) : d[i][1] = k][2]
    ELSE default

\* ------------------------------------------------------------ key names
kHMMDirectory == <<"H","M","M","D","i","r","e","c","t","o","r","y">>
kHMMfile == <<"H","M","M","f","i","l","e">>
kHMMER == <<"H","M","M","E","R">>
kNAME == <<"N","A","M","E">>
kACC == <<"A","C","C">>
kDESC == <<"D","E","S","C">>
kSOURCE == <<"S","O","U","R","C","E">>
Terminator == <<"/", "/">>

\* allowed keywords to parse
keywords ==
    { kHMMER, kNAME, kACC, kDESC,
      <<"L","E","N","G">>, <<"M","A","X","L">>, <<"A","L","P","H">>,
      <<"R","F">>, <<"M","M">>, <<"C","O","N","S">>, <<"C","S">>,
      <<"M","A","P">>, <<"D","A","T","E">>, <<"N","S","E","Q">>,
      <<"E","F","F","N">>, <<"C","K","S","U","M">>,
      <<"G","A">>, <<"T","C">>, <<"N","C">> }

\* ------------------------------------------------- read_and_process_file
\* the first line of the file, as f.readline() returns it ("" at end of file)
readline(lines) == IF lines = <<>> THEN <<>> ELSE lines[1]

\* the first-line lines that skip the version detection
SkipVersion == { <<"\n">>, <<>>, Terminator }

\* the version check that forgets to store the version token
ParseVersionNoStore(rec, readln) ==
    IF readln \in SkipVersion THEN [raised |-> FALSE, rec |-> rec]
    ELSE LET parts == split_maxsplit1(readln)
         IN  IF Len(parts) # 2 THEN [raised |-> TRUE, rec |-> rec]
             ELSE IF ~startswith(parts[1], kHMMER)
                  THEN [raised |-> TRUE, rec |-> rec]
                  ELSE [raised |-> FALSE, rec |-> rec]

\* the version check that accepts any first token
ParseVersionAnyPrefix(rec, readln) ==
    IF readln \in SkipVersion THEN [raised |-> FALSE, rec |-> rec]
    ELSE LET parts == split_maxsplit1(readln)
         IN  IF Len(parts) # 2 THEN [raised |-> TRUE, rec |-> rec]
             ELSE [raised |-> FALSE, rec |-> DictSet(rec, kHMMER, parts[1])]

\* the version check of the first line: the record, or the exception raised
ParseVersion(rec, readln) ==
    IF readln \in SkipVersion THEN [raised |-> FALSE, rec |-> rec]
    ELSE LET parts == split_maxsplit1(readln)
         IN  IF Len(parts) # 2 THEN [raised |-> TRUE, rec |-> rec]
             ELSE IF ~startswith(parts[1], kHMMER)
                  THEN [raised |-> TRUE, rec |-> rec]
                  ELSE [raised |-> FALSE, rec |-> DictSet(rec, kHMMER, parts[1])]

\* the loop iteration that stores every key, allow-listed or not
ParseHeaderLineAnyKey(rec, line) ==
    LET readln == rstrip(line)
        parts == split_maxsplit1(readln)
    IN  IF readln = Terminator THEN [st |-> "break", rec |-> rec]
        ELSE IF Len(parts) # 2 THEN [st |-> "raise", rec |-> rec]
        ELSE [st |-> "next", rec |-> DictSet(rec, parts[1], parts[2])]

\* one iteration of the loop over the remaining lines
ParseHeaderLine(rec, line) ==
    LET readln == rstrip(line)
        parts == split_maxsplit1(readln)
    IN  IF readln = Terminator THEN [st |-> "break", rec |-> rec]
        ELSE IF Len(parts) # 2 THEN [st |-> "raise", rec |-> rec]
        ELSE IF parts[1] \in keywords
             THEN [st |-> "next", rec |-> DictSet(rec, parts[1], parts[2])]
             ELSE [st |-> "next", rec |-> rec]

\* the record with which parsing starts
NewRecord(root, filename) ==
    << <<kHMMDirectory, root>>, <<kHMMfile, filename>> >>

\* ------------------------------------------- infer_source_from_accession
sPFAM == <<"P","F","A","M">>
sTIGRFAMS == <<"T","I","G","R","F","A","M","S">>
sUnknown == <<"u","n","k","n","o","w","n">>

\* the inference that tests the prefixes P and TIG
infer_source_short_prefix(rec) ==
    LET HMMacc == DictGet(rec, kACC, <<>>)
    IN  IF startswith(HMMacc, <<"P">>) THEN DictSet(rec, kSOURCE, sPFAM)
        ELSE IF startswith(HMMacc, <<"T", "I", "G">>)
             THEN DictSet(rec, kSOURCE, sTIGRFAMS)
             ELSE DictSet(rec, kSOURCE, sUnknown)

infer_source_from_accession(rec) ==
    LET HMMacc == DictGet(rec, kACC, <<>>)
    IN  IF startswith(HMMacc, <<"P", "F">>) THEN DictSet(rec, kSOURCE, sPFAM)
        ELSE IF startswith(HMMacc, <<"T", "I", "G", "R">>)
             THEN DictSet(rec, kSOURCE, sTIGRFAMS)
             ELSE DictSet(rec, kSOURCE, sUnknown)

\* ------------------------------------------------ write_table, write_json
\* the table written with spaces between the fields
TableTextSpaces(rec) ==
    str_join(<<" ">>, DictKeys(rec)) \o <<"\n">>
        \o str_join(<<" ">>, DictValues(rec)) \o <<"\n">>

\* the text write_table writes
TableText(rec) ==
    str_join(<<"\t">>, DictKeys(rec)) \o <<"\n">>
        \o str_join(<<"\t">>, DictValues(rec)) \o <<"\n">>

\* the JSON encoder's escape of one character
JsonChar(c) ==
    IF c = "\"" THEN <<"\\", "\"">>
    ELSE IF c = "\\" THEN <<"\\", "\\">>
    ELSE IF c = "\t" THEN <<"\\", "t">>
    ELSE IF c = "\n" THEN <<"\\", "n">>
    ELSE <<c>>

RECURSIVE JsonString(_)
JsonString(s) ==
    IF s = <<>> THEN <<>> ELSE JsonChar(Head(s)) \o JsonString(Tail(s))

JsonQuoted(s) == <<"\"">> \o JsonString(s) \o <<"\"">>

\* the text json.dump writes for a dict of strings
JsonText(rec) ==
    <<"{">>
        \o str_join(<<",", " ">>,
                    [i \in 1..Len(rec) |->
                        JsonQuoted(rec[i][1]) \o <<":", " ">> \o JsonQuoted(rec[i][2])])
        \o <<"}">>

nTable == <<"h","m","m","-","m","e","t","a","-","t","a","b",".","t","x","t">>
nJson == <<"h","m","m","-","m","e","t","a",".","j","s","o","n">>

\* the file opened with mode "a": the text is appended
WrittenFileAppend(old, text) == [exists |-> TRUE, text |-> old.text \o text]

\* the file that is written only when it does not exist yet
WrittenFileKeep(old, text) ==
    IF old.exists THEN old ELSE [exists |-> TRUE, text |-> text]

\* the content of a file opened with mode "w" and written once
WrittenFile(old, text) == [exists |-> TRUE, text |-> text]

NoFile == [exists |-> FALSE, text |-> <<>>]

\* ------------------------------------------------------- the directory tree
Dirs == 0..(NumDirs - 1)
StartDir == 0
NoDir == -1
Parent(d) == d \div 2

nDot == <<".">>
nData == <<"d","a","t","a">>
nModels == <<"m","o","d","e","l","s">>
DirNames == {nData, nModels}

\* the subdirectories of d, in the order the directory listing yields them
Children(d) == SelectSeq([i \in 1..(NumDirs - 1) |-> i], LAMBDA c : Parent(c) = d)

\* the trees: every directory but the start directory has a name, and the
\* subdirectories of one directory have different names
DirNamings ==
    { n \in [Dirs -> DirNames \cup {nDot}] :
        /\ n[StartDir] = nDot
        /\ \A d \in Dirs \ {StartDir} : n[d] # nDot
        /\ \A c, d \in Dirs \ {StartDir} :
              (c # d /\ Parent(c) = Parent(d)) => n[c] # n[d] }

\* profile files of the tree
LineVersion == <<"H","M","M","E","R","3","/","f"," ","[","3","]","\n">>
LineNameX == <<"N","A","M","E"," "," ","X","\n">>
LineNameY == <<"N","A","M","E"," "," ","Y","\n">>
LineAccPF == <<"A","C","C"," "," ","P","F","1","\n">>
LineAccTIGR == <<"A","C","C"," "," ","T","I","G","R","2","\n">>
LineFoobar == <<"F","O","O","B","A","R"," ","1",".","0","\n">>
LineEnd == <<"/","/","\n">>

FileA == [name |-> <<"a",".","h","m","m">>,
          lines |-> <<LineVersion, LineNameX, LineAccPF, LineEnd>>]
FileB == [name |-> <<"b",".","h","m","m">>,
          lines |-> <<LineVersion, LineNameY, LineAccTIGR, LineEnd>>]
FileBad == [name |-> <<"x",".","h","m","m">>,
            lines |-> <<LineFoobar, LineEnd>>]
FileTxt == [name |-> <<"n",".","t","x","t">>,
            lines |-> <<LineVersion, LineEnd>>]
Catalogue == {FileA, FileB, FileBad, FileTxt}

\* the listings of one directory: at most n different files in some order
Listings(n) ==
    UNION { { l \in [1..k -> Catalogue] : \A i, j \in 1..k : i # j => l[i] # l[j] }
            : k \in 0..n }

\* the files of a tree, one after the other: each in a directory
Placements == UNION { [1..k -> Dirs \X Catalogue] : k \in 0..MaxFiles }

\* the listings of the directories of a tree with the files p
ListingOf(p) ==
    [d \in Dirs |->
        LET q == SelectSeq(p, LAMBDA x : x[1] = d)
        IN  [i \in 1..Len(q) |-> q[i][2]]]

\* the trees with at most MaxFiles files, no file twice in a directory
TreeListings ==
    { ListingOf(p) :
        p \in { q \in Placements :
                  \A i, j \in 1..Len(q) : i # j => q[i] # q[j] } }

\* an open() that fails in one directory: of the profile file ("read"), of
\* hmm-meta-tab.txt ("tab") or of hmm-meta.json ("json")
NoFault == <<NoDir, "none">>
FaultKinds == {"read", "tab", "json"}

VARIABLES dirName, listing, fault, out, run, pc, stack, root, files, filename,
          fpos, hmmannotation, err, visited, firstOut

vars == <<dirName, listing, fault, out, run, pc, stack, root, files, filename,
          fpos, hmmannotation, err, visited, firstOut>>

env == <<dirName, listing, fault>>

\* root of the os.walk tuple for directory d
RECURSIVE DirPath(_)
DirPath(d) == IF d = StartDir THEN nDot ELSE join(DirPath(Parent(d)), dirName[d])

\* d is a directory named data or lies below one
RECURSIVE InDataSubtree(_)
InDataSubtree(d) ==
    /\ d # StartDir
    /\ (dirName[d] = nData \/ InDataSubtree(Parent(d)))

\* the files of directory d the loop processes, in listing order
Matching(d) ==
    SelectSeq(listing[d], LAMBDA f : fnmatch_hmm(join(DirPath(d), f.name)))

\* the directories in which the script opens files
Processed == { d \in Dirs : ~InDataSubtree(d) /\ Matching(d) # <<>> }

\* the failing open(), if any, is one the script reaches
Faults == {NoFault} \cup (Processed \X FaultKinds)

NoOutput == [d \in Dirs |-> [tab |-> NoFile, json |-> NoFile]]

\* the traversal that prunes nothing
RemoveNothing(dirs) == dirs

\* if "data" in dirs: dirs.remove("data")
RECURSIVE RemoveData(_)
RemoveData(dirs) ==
    IF dirs = <<>> THEN <<>>
    ELSE IF dirName[Head(dirs)] = nData THEN Tail(dirs)
    ELSE <<Head(dirs)>> \o RemoveData(Tail(dirs))

\* the file names os.walk lists for directory d
ListFiles(d) ==
    [i \in 1..Len(listing[d]) |-> listing[d][i].name]
        \o (IF out[d].tab.exists THEN <<nTable>> ELSE <<>>)
        \o (IF out[d].json.exists THEN <<nJson>> ELSE <<>>)

\* the lines of the file called name in directory d
FileLines(d, name) ==
    listing[d][CHOOSE i \in 1..Len(listing[d]) : listing[d][i].name = name].lines

\* the loop that skips the file whose processing raised and goes on
UncaughtSkipsFile == "file"

\* where the script is after an exception nobody catches
Uncaught == "halted"

\* the state of a process that has just started
Started ==
    /\ pc = "walk"
    /\ stack = <<StartDir>>
    /\ root = NoDir
    /\ files = <<>>
    /\ filename = <<>>
    /\ fpos = 0
    /\ hmmannotation = <<>>
    /\ err = "none"
    /\ visited = {}

Init ==
    /\ dirName \in DirNamings
    /\ listing \in TreeListings
    /\ fault \in Faults
    /\ out = NoOutput
    /\ run = 1
    /\ firstOut = out
    /\ Started

\* the trees with at most one file in every directory
InitSpread ==
    /\ dirName \in DirNamings
    /\ listing \in [Dirs -> Listings(1)]
    /\ fault \in Faults
    /\ out = NoOutput
    /\ run = 1
    /\ firstOut = out
    /\ Started

\* for root, dirs, files in os.walk('.'): the next directory, data pruned
Walk ==
    /\ pc = "walk"
    /\ stack # <<>>
    /\ LET top == Head(stack)
       IN  /\ root' = top
           /\ stack' = RemoveData(Children(top)) \o Tail(stack)
           /\ files' = ListFiles(top)
           /\ visited' = visited \cup {top}
    /\ pc' = "file"
    /\ UNCHANGED <<env, out, run, filename, fpos, hmmannotation, err, firstOut>>

\* os.walk is exhausted: the script ends
Finish ==
    /\ pc = "walk"
    /\ stack = <<>>
    /\ pc' = "done"
    /\ UNCHANGED <<env, out, run, stack, root, files, filename, fpos,
                   hmmannotation, err, visited, firstOut>>

\* for filename in files: if fnmatch.fnmatch(join(root, filename), "*.hmm")
NextFile ==
    /\ pc = "file"
    /\ IF files = <<>>
       THEN /\ pc' = "walk"
            /\ UNCHANGED <<files, filename>>
       ELSE /\ filename' = Head(files)
            /\ files' = Tail(files)
            /\ pc' = IF fnmatch_hmm(join(DirPath(root), Head(files)))
                     THEN "read" ELSE "file"
    /\ UNCHANGED <<env, out, run, stack, root, fpos, hmmannotation, err,
                   visited, firstOut>>

\* read_and_process_file up to the loop over the remaining lines
ReadFirstLine ==
    /\ pc = "read"
    /\ IF fault = <<root, "read">>
       THEN /\ pc' = Uncaught
            /\ err' = "OSError"
            /\ UNCHANGED <<hmmannotation, fpos>>
       ELSE LET v == ParseVersion(NewRecord(DirPath(root), filename),
                                  readline(FileLines(root, filename)))
            IN  /\ hmmannotation' = v.rec
                /\ fpos' = 2
                /\ IF v.raised
                   THEN pc' = Uncaught /\ err' = "ValueError"
                   ELSE pc' = "lines" /\ err' = err
    /\ UNCHANGED <<env, out, run, stack, root, files, filename, visited, firstOut>>

\* for readln in f: one line, or the end of the file
ReadHeaderLine ==
    /\ pc = "lines"
    /\ LET lines == FileLines(root, filename)
       IN  IF fpos > Len(lines)
           THEN /\ pc' = "infer"
                /\ UNCHANGED <<hmmannotation, fpos, err>>
           ELSE LET r == ParseHeaderLine(hmmannotation, lines[fpos])
                IN  /\ hmmannotation' = r.rec
                    /\ fpos' = IF r.st = "next" THEN fpos + 1 ELSE fpos
                    /\ pc' = IF r.st = "next" THEN "lines"
                             ELSE IF r.st = "break" THEN "infer"
                             ELSE Uncaught
                    /\ err' = IF r.st = "raise" THEN "ValueError" ELSE err
    /\ UNCHANGED <<env, out, run, stack, root, files, filename, visited, firstOut>>

InferSource ==
    /\ pc = "infer"
    /\ hmmannotation' = infer_source_from_accession(hmmannotation)
    /\ pc' = "table"
    /\ UNCHANGED <<env, out, run, stack, root, files, filename, fpos, err,
                   visited, firstOut>>

WriteTable ==
    /\ pc = "table"
    /\ IF fault = <<root, "tab">>
       THEN /\ pc' = Uncaught
            /\ err' = "OSError"
            /\ out' = out
       ELSE /\ out' = [out EXCEPT ![root].tab =
                          WrittenFile(@, TableText(hmmannotation))]
            /\ pc' = "json"
            /\ err' = err
    /\ UNCHANGED <<env, run, stack, root, files, filename, fpos, hmmannotation,
                   visited, firstOut>>

WriteJson ==
    /\ pc = "json"
    /\ IF fault = <<root, "json">>
       THEN /\ pc' = Uncaught
            /\ err' = "OSError"
            /\ out' = out
       ELSE /\ out' = [out EXCEPT ![root].json =
                          WrittenFile(@, JsonText(hmmannotation))]
            /\ pc' = "file"
            /\ err' = err
    /\ UNCHANGED <<env, run, stack, root, files, filename, fpos, hmmannotation,
                   visited, firstOut>>

\* the script is started again on the tree the previous run left
Restart ==
    /\ pc \in {"done", "halted"}
    /\ run < MaxRuns
    /\ run' = run + 1
    /\ firstOut' = IF run = 1 THEN out ELSE firstOut
    /\ pc' = "walk"
    /\ stack' = <<StartDir>>
    /\ root' = NoDir
    /\ files' = <<>>
    /\ filename' = <<>>
    /\ fpos' = 0
    /\ hmmannotation' = <<>>
    /\ err' = "none"
    /\ visited' = {}
    /\ UNCHANGED <<env, out>>

Next ==
    \/ Walk
    \/ Finish
    \/ NextFile
    \/ ReadFirstLine
    \/ ReadHeaderLine
    \/ InferSource
    \/ WriteTable
    \/ WriteJson
    \/ Restart

Spec == Init /\ [][Next]_vars

SpecSpread == InitSpread /\ [][Next]_vars

\* ------------------------------------------- one profile file, any header
LineBlank == <<"\n">>
LineVersionOnly == <<"H","M","M","E","R","3","/","f","\n">>
LineAccTab == <<"A","C","C","\t","T","I","G","R","2"," ","\n">>
LineCom == <<"C","O","M"," ","h","m","m","b","u","i","l","d"," ","y","\n">>
LineComOnly == <<"C","O","M","\n">>
LineDescTab == <<"D","E","S","C"," "," ","a","\t","b","\n">>
LineHmmer == <<"H","M","M","E","R"," ","z","\n">>

FirstLines == {LineVersion, LineFoobar, LineEnd, LineBlank, LineVersionOnly}
HeaderLines == {LineNameX, LineAccPF, LineAccTab, LineCom, LineComOnly,
                LineDescTab, LineHmmer, LineEnd}

\* the files: empty, the terminator alone without a newline, or a first line
\* followed by at most MaxLines lines
ProfileTexts ==
    { <<>>, <<Terminator>> }
        \cup UNION { { <<first>> \o rest : first \in FirstLines,
                                            rest \in [1..k -> HeaderLines] }
                     : k \in 0..MaxLines }

\* a tree in which no two subdirectories of a directory have the same name
PlainNaming ==
    [d \in Dirs |-> IF d = StartDir THEN nDot
                    ELSE IF d % 2 = 1 THEN nModels ELSE nData]

InitFile ==
    /\ dirName = PlainNaming
    /\ \E text \in ProfileTexts :
          listing = [d \in Dirs |->
                        IF d = StartDir
                        THEN << [name |-> FileA.name, lines |-> text] >>
                        ELSE <<>>]
    /\ fault = NoFault
    /\ out = NoOutput
    /\ run = 1
    /\ firstOut = out
    /\ Started

SpecParse == InitFile /\ [][Next]_vars

\* ------------------------------------- one record, any accession value
AccValues ==
    { <<>>, <<"P">>, <<"P","F">>, <<"P","F","0","0","0","0","1">>,
      <<"P","X","1">>, <<"p","f","1">>, <<"T","P","F","1">>,
      <<"T","I","G">>, <<"T","I","G","X","1">>, <<"T","I","G","R">>,
      <<"T","I","G","R","0","0","0","0","1">>,
      <<"X","X","1","2","3","4","5">> }

Optional(entries) == {<<>>} \cup {<<e>> : e \in entries}

\* the records handed to infer_source_from_accession
InferInputs ==
    { NewRecord(nDot, FileA.name) \o old \o name \o acc :
        old \in Optional({<<kSOURCE, sPFAM>>, <<kSOURCE, sUnknown>>}),
        name \in Optional({<<kNAME, <<"X">>>>}),
        acc \in Optional({<<kACC, a>> : a \in AccValues}) }

InitInfer ==
    /\ dirName = PlainNaming
    /\ listing = [d \in Dirs |-> IF d = StartDir THEN <<FileA>> ELSE <<>>]
    /\ fault = NoFault
    /\ out = NoOutput
    /\ run = 1
    /\ firstOut = out
    /\ pc = "infer"
    /\ stack = RemoveData(Children(StartDir))
    /\ root = StartDir
    /\ files = <<>>
    /\ filename = FileA.name
    /\ fpos = 0
    /\ hmmannotation \in InferInputs
    /\ err = "none"
    /\ visited = {StartDir}

SpecInfer == InitInfer /\ [][Next]_vars

\* ------------------------------------------------------------ properties
\* the lines of the file being processed
CurLines == FileLines(root, filename)

\* read_and_process_file has returned, or has raised
ParseReturned == pc = "infer"
ParseRaised == pc = "halted" /\ err = "ValueError"

\* the rest of read_and_process_file: the loop over the lines from line i on
RECURSIVE ParseLines(_, _, _)
ParseLines(rec, lines, i) ==
    IF i > Len(lines) THEN [raised |-> FALSE, rec |-> rec]
    ELSE LET r == ParseHeaderLine(rec, lines[i])
         IN  IF r.st = "break" THEN [raised |-> FALSE, rec |-> r.rec]
             ELSE IF r.st = "raise" THEN [raised |-> TRUE, rec |-> r.rec]
             ELSE ParseLines(r.rec, lines, i + 1)

\* read_and_process_file(root, filename) on a file with the given lines
read_and_process_file(rootpath, name, lines) ==
    LET v == ParseVersion(NewRecord(rootpath, name), readline(lines))
    IN  IF v.raised THEN v ELSE ParseLines(v.rec, lines, 2)

\* the record the loop hands to the writers for file f of directory d
RecordOf(d, f) ==
    infer_source_from_accession(
        read_and_process_file(DirPath(d), f.name, f.lines).rec)

\* the output files of d once all its files have been processed
FinalOut(d) ==
    IF Matching(d) = <<>> THEN [tab |-> NoFile, json |-> NoFile]
    ELSE LET last == Matching(d)[Len(Matching(d))]
         IN  [tab |-> [exists |-> TRUE, text |-> TableText(RecordOf(d, last))],
              json |-> [exists |-> TRUE, text |-> JsonText(RecordOf(d, last))]]

HasNoOutput(d) == ~out[d].tab.exists /\ ~out[d].json.exists

\* --- C1
KeyToken(line) == split_maxsplit1(rstrip(line))[1]
IsKeyValueLine(line) == Len(split_maxsplit1(rstrip(line))) = 2
IsTerminatorLine(line) == rstrip(line) = Terminator

\* a version line, key/value lines, then a terminator line at index t
WellFormedUpTo(lines, t) ==
    /\ t \in 2..Len(lines)
    /\ Len(split_maxsplit1(lines[1])) = 2
    /\ startswith(split_maxsplit1(lines[1])[1], kHMMER)
    /\ IsTerminatorLine(lines[t])
    /\ \A i \in 2..(t - 1) : IsKeyValueLine(lines[i])

WellFormed(lines) == \E t \in 2..Len(lines) : WellFormedUpTo(lines, t)

ExpectedKeys(lines) ==
    {kHMMDirectory, kHMMfile, kHMMER}
        \cup { k \in keywords :
                 \E t \in 2..Len(lines) :
                    /\ WellFormedUpTo(lines, t)
                    /\ \E i \in 2..(t - 1) : KeyToken(lines[i]) = k }

\* C1: for a well-formed profile file read_and_process_file returns, and
\* the keys of the record are exactly HMMDirectory, HMMfile, HMMER and the
\* allow-listed keys that are the key token of a line before the terminator
C1_Thm ==
    ((ParseReturned \/ ParseRaised) /\ WellFormed(CurLines))
        => (ParseReturned /\ KeySet(hmmannotation) = ExpectedKeys(CurLines))

C1_Witness ==
    /\ ParseReturned
    /\ CurLines = <<LineVersion, LineCom, LineNameX, LineEnd>>
    /\ KeySet(hmmannotation) = {kHMMDirectory, kHMMfile, kHMMER, kNAME}

\* C2: for a file whose first line is the terminator, with or without a
\* newline, read_and_process_file returns a record with only the keys
\* HMMDirectory and HMMfile
C2_Claim ==
    ((ParseReturned \/ ParseRaised)
         /\ CurLines # <<>> /\ CurLines[1] \in {Terminator, LineEnd})
        => (ParseReturned /\ KeySet(hmmannotation) = {kHMMDirectory, kHMMfile})

\* --- C3
AccOf(rec) ==
    IF \E i \in 1..Len(rec) : rec[i][1] = kACC
    THEN rec[CHOOSE i \in 1..Len(rec) : rec[i][1] = kACC][2]
    ELSE <<>>

ExpectedSource(acc) ==
    IF Len(acc) >= 2 /\ acc[1] = "P" /\ acc[2] = "F" THEN sPFAM
    ELSE IF Len(acc) >= 4 /\ acc[1] = "T" /\ acc[2] = "I"
                /\ acc[3] = "G" /\ acc[4] = "R" THEN sTIGRFAMS
    ELSE sUnknown

\* C3: infer_source_from_accession sets SOURCE to PFAM for an ACC starting
\* with PF, else to TIGRFAMS for one starting with TIGR, else to unknown;
\* SOURCE is present afterwards and no other entry changes
C3_Thm ==
    [][pc = "infer" =>
          /\ KeySet(hmmannotation') = KeySet(hmmannotation) \cup {kSOURCE}
          /\ \E i \in 1..Len(hmmannotation') :
                hmmannotation'[i] = <<kSOURCE, ExpectedSource(AccOf(hmmannotation))>>
          /\ \A i \in 1..Len(hmmannotation) :
                hmmannotation[i][1] # kSOURCE => hmmannotation'[i] = hmmannotation[i]
      ]_vars

C3_Witness ==
    /\ pc = "table"
    /\ run = 1
    /\ hmmannotation =
          NewRecord(nDot, FileA.name)
              \o << <<kSOURCE, sTIGRFAMS>>,
                    <<kACC, <<"T","I","G","R","0","0","0","0","1">>>> >>

\* C4: no file in a directory named data or below one is parsed, and no
\* output file is written there
C4_Thm ==
    /\ root # NoDir => ~InDataSubtree(root)
    /\ \A d \in Dirs : InDataSubtree(d) => (d \notin visited /\ HasNoOutput(d))

C4_Witness ==
    /\ pc = "done"
    /\ \E d, e \in Dirs :
          /\ dirName[e] = nData
          /\ Parent(d) = e
          /\ dirName[d] # nData
          /\ Matching(d) # <<>>
          /\ Matching(e) # <<>>

\* C5: after a run without error every visited directory with a matching
\* file holds, in both output files, the record of the last matching file
\* processed there
C5_Thm ==
    pc = "done" =>
        \A d \in visited : Matching(d) # <<>> => out[d] = FinalOut(d)

C5_Witness ==
    /\ pc = "done"
    /\ \E d \in visited :
          /\ listing[d] = <<FileA, FileB>>
          /\ DictGet(RecordOf(d, FileB), kSOURCE, <<>>) = sTIGRFAMS
          /\ DictGet(RecordOf(d, FileB), kNAME, <<>>) = <<"Y">>
          /\ out[d].json.text = JsonText(RecordOf(d, FileB))
          /\ out[d].tab.text = TableText(RecordOf(d, FileB))

\* C6: reaching a matching file whose first line is FOOBAR 1.0 raises the
\* format error and halts the script; that step and every later one write
\* no output file, so a directory whose first matching file it is has none
C6_Thm ==
    /\ [][(/\ pc = "read"
           /\ fault # <<root, "read">>
           /\ readline(CurLines) = LineFoobar)
             => (pc' = "halted" /\ err' = "ValueError" /\ out' = out)]_vars
    /\ [][pc = "halted" => (out' = out /\ run' = run + 1)]_vars
    /\ [](( /\ pc = "halted"
            /\ err = "ValueError"
            /\ run = 1
            /\ readline(CurLines) = LineFoobar
            /\ Matching(root)[1].name = filename) => HasNoOutput(root))

C6_Witness ==
    /\ pc = "halted"
    /\ err = "ValueError"
    /\ readline(CurLines) = LineFoobar
    /\ HasNoOutput(root)

\* --- C7
RECURSIVE IndexOf(_, _, _)
IndexOf(s, c, i) == IF i > Len(s) \/ s[i] = c THEN i ELSE IndexOf(s, c, i + 1)

\* s.split(c)
RECURSIVE SplitOn(_, _)
SplitOn(s, c) ==
    LET n == IndexOf(s, c, 1)
    IN  IF n > Len(s) THEN <<s>>
        ELSE <<SubSeq(s, 1, n - 1)>> \o SplitOn(SubSeq(s, n + 1, Len(s)), c)

\* the lines of a text, without their terminating newline
TextLines(text) ==
    LET parts == SplitOn(text, "\n")
    IN  IF parts[Len(parts)] = <<>> THEN SubSeq(parts, 1, Len(parts) - 1) ELSE parts

\* the pairs read back from a table; no pairs when the table is not two
\* lines of equally many fields
ReadTable(text) ==
    LET ls == TextLines(text)
    IN  IF Len(ls) # 2 THEN <<>>
        ELSE LET ks == SplitOn(ls[1], "\t")
                 vs == SplitOn(ls[2], "\t")
             IN  IF Len(ks) # Len(vs) THEN <<>>
                 ELSE [i \in 1..Len(ks) |-> <<ks[i], vs[i]>>]

NoTabOrNewline(rec) ==
    \A i \in 1..Len(rec) : \A j \in 1..2 : \A n \in 1..Len(rec[i][j]) :
        rec[i][j][n] \notin {"\t", "\n"}

\* C7 as claimed: the table of every record reads back as the record
C7_Claim ==
    pc = "json" => ReadTable(out[root].tab.text) = hmmannotation

\* C7: the table of a record whose keys and values hold no tab and no
\* newline reads back as the record's pairs in insertion order
C7_Thm ==
    (pc = "json" /\ NoTabOrNewline(hmmannotation))
        => ReadTable(out[root].tab.text) = hmmannotation

C7_Witness ==
    /\ pc = "json"
    /\ NoTabOrNewline(hmmannotation)
    /\ Len(hmmannotation) >= 5
    /\ ReadTable(out[root].tab.text) = hmmannotation

\* C8: a second run on the tree the first run left ends with the output
\* files the first run ended with
C8_Thm ==
    (run >= 2 /\ pc \in {"done", "halted"}) => out = firstOut

C8_Witness ==
    /\ run = 2
    /\ pc = "done"
    /\ \E d \in visited : Len(Matching(d)) = 2 /\ out[d].tab.exists
    /\ out = firstOut

\* C9: after the first error the script halts: nothing more is parsed or
\* written, the directories processed before keep their final output and
\* the directories not reached have none
C9_Thm ==
    /\ [][err # "none" => (out' = out /\ run' = run + 1)]_vars
    /\ [](err # "none" =>
            /\ pc = "halted"
            /\ \A d \in Dirs \ visited : HasNoOutput(d)
            /\ \A d \in visited \ {root} : out[d] = FinalOut(d))

C9_Witness ==
    /\ pc = "halted"
    /\ \E d \in visited \ {root} : out[d].tab.exists /\ out[d].json.exists
    /\ \E d \in Dirs \ visited : ~InDataSubtree(d) /\ Matching(d) # <<>>

\* C10: a key/value line whose key is not allow-listed changes nothing in
\* the record, and parsing goes on with the next line
C10_Thm ==
    [][(/\ pc = "lines"
        /\ fpos <= Len(CurLines)
        /\ IsKeyValueLine(CurLines[fpos])
        /\ KeyToken(CurLines[fpos]) \notin keywords)
          => (/\ hmmannotation' = hmmannotation
              /\ pc' = "lines"
              /\ fpos' = fpos + 1
              /\ err' = err)]_vars

C10_Witness ==
    /\ pc = "lines"
    /\ run = 1
    /\ fpos = 4
    /\ CurLines[2] = LineNameX
    /\ CurLines[3] = LineCom
    /\ hmmannotation = NewRecord(nDot, FileA.name)
                          \o << <<kHMMER, <<"H","M","M","E","R","3","/","f">>>>,
                                <<kNAME, <<"X">>>> >>
====
